---- MODULE Spec2Model ----
(***************************************************************************)
(* State-machine model of the user-account library: UserAccount            *)
(* (src/src/user-account.ts) over ExpireableToken (src/unnamed/part_000),  *)
(* Password (src/src/password.ts) and SecondaryEmail                       *)
(* (src/src/password-reset.ts).  register and login are absent from        *)
(* src/src/user-account.ts and are taken from the second copy of the class *)
(* held in src/src/user-account.spec.ts.                                   *)
(*                                                                         *)
(* JavaScript objects are modelled on a small heap (account objects, email *)
(* arrays, password objects) so that object identity, sharing of           *)
(* containers and in-place mutation are observable.  The caller works on   *)
(* one account at a time: after a static call it keeps the returned object *)
(* (or the input, if the call threw); an instance call mutates the         *)
(* instance it was made on.                                                *)
(***************************************************************************)
EXTENDS Integers, Sequences, FiniteSets, TLC

VARIABLES
  account,          \* the account the caller holds, containers followed
  call,             \* the last call made on it and what it did
  now,              \* the clock read by new Date()
  defaultStatus,    \* UserAccount._defaultStatus
  expirationLength, \* ExpireableToken._expirationLength, in hours, or null
  generator,        \* ExpireableToken._generator
  invoked,          \* how often the last Generator assignment called its candidate
  hashing           \* the instance setPassword that awaits Password.create

vars == <<account, call, now, defaultStatus, expirationLength, generator, invoked,
         hashing>>

\* the settings of the ExpireableToken class
tokenSettings == <<expirationLength, generator, invoked>>

\* ---------------------------------------------------------------- bounds
MaxEmails == 1
\* the longest emails list of the specification of the emails list
MaxList == 3
\* how far the clock advances
MaxTime == 4
\* the clock's ticks in one hour (the source counts 60 ** 2 * 1000 ms)
TicksPerHour == 2

\* ---------------------------------------------------------------- values
\* JavaScript `undefined` where a string is expected
Undefined == "undefined"
\* a value that is neither a string, a number, null nor undefined
NonString == "[object Object]"

EmailAddrs == {"a@x", "b@x"}
TokenStrings == {"t1", "t2"}
RawPasswords == {"p1"}
\* what a login is attempted with
LoginAttempts == RawPasswords \cup {"wrong"}
Salts == {"s1"}
\* what the default token generator (random bytes in hex) returns
Generated == {"t1"}
Labels == {"work"}

\* let statusKeys
statusKeys == {"active", "locked", "activation"}
BogusStatus == "kladsklfa"

\* arguments as JavaScript values: typeof t, string payload s, number payload n
Str(s) == [t |-> "string", s |-> s, n |-> 0]
Num(n) == [t |-> "number", s |-> "", n |-> n]
Null == [t |-> "null", s |-> "", n |-> 0]
Obj == [t |-> "object", s |-> NonString, n |-> 0]

\* IExpireableToken; present = FALSE is the field being undefined
NoToken == [present |-> FALSE, created |-> 0, token |-> "", email |-> ""]

\* the contents of a password object; {} has no hash
EmptyObject == [hash |-> <<>>, salt |-> Undefined, created |-> 0]

\* the password field of an account object on the heap
PwUndefined == [kind |-> "undefined", ref |-> 0]
PwNull == [kind |-> "null", ref |-> 0]
PwRef(r) == [kind |-> "ref", ref |-> r]

\* ------------------------------------------------------------------ heap
\* accs: account objects, ems: email arrays, pws: password objects.  An
\* account object holds references (indices) into ems and pws.
NewHeap == [accs |-> <<>>, ems |-> <<>>, pws |-> <<>>]

\* the heap holding just the account value v, at reference 1
ToHeap(v) ==
  [accs |-> << [v EXCEPT !.password = IF v.password.kind = "object"
                                        THEN PwRef(1)
                                        ELSE [kind |-> v.password.kind, ref |-> 0],
                         !.emails = 1] >>,
   ems |-> << v.emails >>,
   pws |-> IF v.password.kind = "object"
             THEN << [hash |-> v.password.hash, salt |-> v.password.salt,
                      created |-> v.password.created] >>
             ELSE << >>]

\* the contents of the account object r, containers followed
Deep(h, r) ==
  LET o == h.accs[r]
      c == IF o.password.kind = "ref" THEN h.pws[o.password.ref] ELSE EmptyObject
  IN [o EXCEPT !.password = [kind |-> IF o.password.kind = "ref" THEN "object"
                                      ELSE o.password.kind,
                             hash |-> c.hash, salt |-> c.salt, created |-> c.created],
               !.emails = h.ems[o.emails]]

\* outcome of a call: the heap after it, the returned reference (0: nothing
\* returned) and the error thrown ("" : none)
Return(h, r) == [h |-> h, ret |-> r, err |-> ""]
Throw(h, e) == [h |-> h, ret |-> 0, err |-> e]

\* Array.from(arr) / [...arr, x]: a new array
NewArray(h, arr) == [h EXCEPT !.ems = Append(@, arr)]
\* an object literal { ...o, f: v }: a new plain object
NewObject(h, o) == [h EXCEPT !.accs = Append(@, [o EXCEPT !.class = "Object"])]

\* ------------------------------------------------------- ExpireableToken
\* a token that is not bound to the email it is made for
ExpireableTokenWithoutEmail(email, date, generated) ==
  [present |-> TRUE, created |-> date, token |-> generated, email |-> Undefined]

\* new ExpireableToken(email): created = new Date(), token = Generator()
ExpireableToken(email, date, generated) ==
  [present |-> TRUE, created |-> date, token |-> generated, email |-> email]

\* validation that does not look whether the reference token is there
validateStringsWithoutPresence(obj, token) == obj.token = token

\* validation that also turns down a token that has expired
validateStringsUnlessExpired(obj, token) ==
  /\ obj.present /\ obj.token = token
  /\ ~(expirationLength.t = "number"
        /\ now >= obj.created + expirationLength.n * TicksPerHour)

validateStrings(obj, token) == obj.present /\ obj.token = token

\* static validate(objA, objB)
validate(objA, objB) == validateStrings(objA, objB.token)

\* a token generator: whether it can be called, and what a call may return
DefaultGenerator ==
  [name |-> "randomBytes", callable |-> TRUE, result |-> {Str(t) : t \in Generated}]
\* () => 'It works'
StringGenerator == [name |-> "string", callable |-> TRUE, result |-> {Str("t2")}]
\* () => 3
NumberGenerator == [name |-> "number", callable |-> TRUE, result |-> {Num(3)}]
\* 2, which is no function
NotAFunction == [name |-> "2", callable |-> FALSE, result |-> {}]

\* the setter assigning the candidate before it looks at the test result
GeneratorSetterAssignsFirst(cur, fn, tst) ==
  IF ~fn.callable THEN [generator |-> cur, err |-> "NotAFunction", invoked |-> 0]
  ELSE IF tst.t # "string"
    THEN [generator |-> fn, err |-> "GeneratorNotString", invoked |-> 1]
  ELSE [generator |-> fn, err |-> "", invoked |-> 1]

\* static set Generator(fn), tst being what the call fn() returns: the
\* generator in force afterwards, the error thrown, and the calls made of fn
GeneratorSetter(cur, fn, tst) ==
  IF ~fn.callable THEN [generator |-> cur, err |-> "NotAFunction", invoked |-> 0]
  ELSE IF tst.t # "string"
    THEN [generator |-> cur, err |-> "GeneratorNotString", invoked |-> 1]
  ELSE [generator |-> fn, err |-> "", invoked |-> 1]

\* the setter without its type check
ExpirationLengthSetterUnchecked(cur, num) ==
  IF num.t = "null" \/ (num.t = "number" /\ num.n <= 0)
    THEN [length |-> Null, err |-> ""]
  ELSE [length |-> num, err |-> ""]

\* the setter storing any number as it is
ExpirationLengthSetterKeepsNumber(cur, num) ==
  IF num.t # "number" /\ num.t # "null"
    THEN [length |-> cur, err |-> "InvalidExpirationLength"]
  ELSE IF num.t = "null" THEN [length |-> Null, err |-> ""]
  ELSE [length |-> Num(num.n), err |-> ""]

\* static set ExpirationLength(num): the length in force afterwards and the
\* error thrown
ExpirationLengthSetter(cur, num) ==
  IF num.t # "number" /\ num.t # "null"
    THEN [length |-> cur, err |-> "InvalidExpirationLength"]
  ELSE IF num.t = "null" \/ num.n <= 0 THEN [length |-> Null, err |-> ""]
  ELSE [length |-> Num(num.n), err |-> ""]

\* static expiryDate(reset) under the length len: a time, or null
expiryDate(reset, len) ==
  IF len.t = "null" THEN Null ELSE Num(reset.created + len.n * TicksPerHour)

\* hasExpired under the length a token was made under, which for the tokens
\* of a fresh process is the one hour ExpirationLength starts with
hasExpiredUnderInitialLength(reset, len, date) ==
  date >= expiryDate(reset, Num(1)).n

\* hasExpired with > where the source has >=
hasExpiredAfter(reset, len, date) ==
  LET expiration == expiryDate(reset, len)
  IN IF len.t = "null" \/ expiration.t = "null" THEN FALSE
     ELSE date > expiration.n

\* static hasExpired(reset) under the length len at the time date
hasExpired(reset, len, date) ==
  LET expiration == expiryDate(reset, len)
  IN IF len.t = "null" \/ expiration.t = "null" THEN FALSE
     ELSE date >= expiration.n

\* -------------------------------------------------------- SecondaryEmail
SecondaryEmail(email, label, date) == [email |-> email, label |-> label, added |-> date]

\* -------------------------------------------------------------- Password
\* Password.create(toHash): bcrypt hash with a fresh salt.  The hash is
\* one-way: it is only ever used through compare.
PasswordCreate(toHash, salt, date) ==
  [hash |-> <<toHash, salt>>, salt |-> salt, created |-> date]

\* Password.validate(pwd, raw) = bcrypt.compare(raw, pwd.hash): bcrypt
\* rejects when the hash is missing, else tells whether raw hashes to it
PasswordValidate(pwd, raw) ==
  IF pwd.hash = <<>> THEN "rejected"
  ELSE IF pwd.hash[1] = raw THEN "true" ELSE "false"

\* ----------------------------------------------------------- UserAccount
\* static fromObject(obj): a new UserAccount with a spread copy of the
\* password, the two tokens by reference, and a copied emails array
fromObject(h, obj) ==
  LET src == h.accs[obj]
      pw == IF src.password.kind = "ref" THEN h.pws[src.password.ref] ELSE EmptyObject
      h1 == [h EXCEPT !.pws = Append(@, pw)]
      h2 == NewArray(h1, h.ems[src.emails])
      acc == [primaryEmail |-> src.primaryEmail,
              password |-> PwRef(Len(h1.pws)),
              status |-> src.status,
              username |-> src.username,
              activation |-> src.activation,
              reset |-> src.reset,
              emails |-> Len(h2.ems),
              class |-> "UserAccount"]
      h3 == [h2 EXCEPT !.accs = Append(@, acc)]
  IN Return(h3, Len(h3.accs))

\* { ...UserAccount.fromObject(user), emails: Array.from(user.emails) }
CloneWithEmails(h, user) ==
  LET c == fromObject(h, user)
      h1 == NewArray(c.h, h.ems[h.accs[user].emails])
      h2 == NewObject(h1, [h1.accs[c.ret] EXCEPT !.emails = Len(h1.ems)])
  IN Return(h2, Len(h2.accs))

\* { ...UserAccount.fromObject(user) }
Clone(h, user) ==
  LET c == fromObject(h, user)
      h1 == NewObject(c.h, c.h.accs[c.ret])
  IN Return(h1, Len(h1.accs))

\* static createActivation keeping an activation that is pending
StaticCreateActivationKeepsPending(h, user, date, generated) ==
  LET c == CloneWithEmails(h, user)
  IN IF h.accs[user].activation.present THEN c
     ELSE Return([c.h EXCEPT !.accs[c.ret].activation =
                    ExpireableToken(h.accs[user].primaryEmail, date, generated)], c.ret)

\* static createActivation(user)
StaticCreateActivation(h, user, date, generated) ==
  LET c == CloneWithEmails(h, user)
  IN Return([c.h EXCEPT !.accs[c.ret].activation =
                 ExpireableToken(h.accs[user].primaryEmail, date, generated)], c.ret)

\* static activate comparing the strings before looking for the token
StaticActivateComparesFirst(h, user, token) ==
  IF validateStrings(h.accs[user].activation, token) = FALSE
    THEN Throw(h, "ActivationTokensDoNotMatch")
  ELSE IF ~h.accs[user].activation.present THEN Throw(h, "ActivationDoesNotExist")
  ELSE LET c == CloneWithEmails(h, user)
       IN Return([c.h EXCEPT !.accs[c.ret].activation = NoToken], c.ret)

\* static activate(user, token)
StaticActivate(h, user, token) ==
  IF ~h.accs[user].activation.present THEN Throw(h, "ActivationDoesNotExist")
  ELSE IF validateStrings(h.accs[user].activation, token) = FALSE
    THEN Throw(h, "ActivationTokensDoNotMatch")
  ELSE LET c == CloneWithEmails(h, user)
       IN Return([c.h EXCEPT !.accs[c.ret].activation = NoToken], c.ret)

\* static addEmail pushing onto the caller's own array
StaticAddEmailPushesOnInput(h, user, email, label, date) ==
  IF email.t # "string" THEN Throw(h, "EmailNotString")
  ELSE LET h1 == [h EXCEPT !.ems[h.accs[user].emails] =
                     Append(@, SecondaryEmail(email.s, label, date))]
           c == fromObject(h1, user)
           h2 == NewObject(c.h, c.h.accs[c.ret])
       IN Return(h2, Len(h2.accs))

\* static addEmail(user, email, label)
StaticAddEmail(h, user, email, label, date) ==
  IF email.t # "string" THEN Throw(h, "EmailNotString")
  ELSE LET h1 == NewArray(h, Append(h.ems[h.accs[user].emails],
                                    SecondaryEmail(email.s, label, date)))
           emails == Len(h1.ems)
           c == fromObject(h1, user)
           h2 == NewObject(c.h, [c.h.accs[c.ret] EXCEPT !.emails = emails])
       IN Return(h2, Len(h2.accs))

\* the index of the last entry with the address instead of the first
findLastIndex(arr, email) ==
  IF \E i \in 1..Len(arr) : arr[i].email = email
    THEN (CHOOSE i \in 1..Len(arr) :
            /\ arr[i].email = email
            /\ \A j \in (i + 1)..Len(arr) : arr[j].email # email) - 1
    ELSE -1

\* Array.prototype.findIndex on the email field: 0-based, -1 if none
findIndex(arr, email) ==
  IF \E i \in 1..Len(arr) : arr[i].email = email
    THEN (CHOOSE i \in 1..Len(arr) :
            /\ arr[i].email = email
            /\ \A j \in 1..(i - 1) : arr[j].email # email) - 1
    ELSE -1

\* arr.splice(index): without a delete count, everything from index on goes
spliceToEnd(arr, index) ==
  IF index >= Len(arr) THEN arr ELSE SubSeq(arr, 1, index)

\* arr.splice(index, 1) for index >= 0, 0-based
splice(arr, index) ==
  IF index >= Len(arr) THEN arr
  ELSE [i \in 1..(Len(arr) - 1) |-> IF i <= index THEN arr[i] ELSE arr[i + 1]]

\* the index removeEmail works on: the argument itself, or findIndex for a string
RemoveIndex(arr, email) ==
  IF email.t = "string" THEN [t |-> "number", n |-> findIndex(arr, email.s)]
  ELSE [t |-> email.t, n |-> email.n]

\* static removeEmail(user, email)
StaticRemoveEmail(h, user, email) ==
  LET index == RemoveIndex(h.ems[h.accs[user].emails], email)
  IN IF index.t # "number" \/ index.n < 0
       THEN \* return { ...user }
            LET h1 == NewObject(h, h.accs[user]) IN Return(h1, Len(h1.accs))
       ELSE LET c == CloneWithEmails(h, user)
                e == c.h.accs[c.ret].emails
            IN Return([c.h EXCEPT !.ems[e] = splice(@, index.n)], c.ret)

\* static createReset(user)
StaticCreateReset(h, user, date, generated) ==
  LET c == CloneWithEmails(h, user)
  IN Return([c.h EXCEPT !.accs[c.ret].reset =
                 ExpireableToken(c.h.accs[c.ret].primaryEmail, date, generated)], c.ret)

\* static applyReset(user, token)
StaticApplyReset(h, user, token) ==
  IF ~h.accs[user].reset.present THEN Throw(h, "ResetDoesNotExist")
  ELSE IF validateStrings(h.accs[user].reset, token) = FALSE
    THEN Throw(h, "ResetTokenDoesNotAlign")
  ELSE LET c == CloneWithEmails(h, user)
       IN Return([c.h EXCEPT !.accs[c.ret].reset = NoToken], c.ret)

\* static setPrimaryEmail taking the entry it selects by index out of emails
StaticSetPrimaryEmailTakingEntry(h, user, obj) ==
  LET arr == h.ems[h.accs[user].emails]
      inRange == obj.t = "number" /\ obj.n >= 0 /\ obj.n < Len(arr)
      h1 == NewArray(h, IF inRange
                          THEN SubSeq(arr, 1, obj.n) \o SubSeq(arr, obj.n + 2, Len(arr))
                        ELSE arr)
      emails == Len(h1.ems)
  IN IF obj.t = "number" /\ ~inRange
       THEN Throw(h1, "CannotReadProperty")
     ELSE LET primaryEmail == IF obj.t = "number" THEN arr[obj.n + 1].email
                              ELSE IF obj.t = "string" THEN obj.s
                              ELSE IF obj.t = "null" THEN Undefined
                              ELSE NonString
          IN IF primaryEmail = Undefined THEN Throw(h1, "NoEmailToSet")
             ELSE LET c == fromObject(h1, user)
                      h2 == NewObject(c.h, [c.h.accs[c.ret] EXCEPT
                                              !.emails = emails,
                                              !.primaryEmail = primaryEmail])
                  IN Return(h2, Len(h2.accs))

\* static setPrimaryEmail(user, obj)
StaticSetPrimaryEmail(h, user, obj) ==
  LET h1 == NewArray(h, h.ems[h.accs[user].emails])
      emails == Len(h1.ems)
      arr == h.ems[h.accs[user].emails]
  IN IF obj.t = "number" /\ ~(obj.n >= 0 /\ obj.n < Len(arr))
       THEN \* user.emails[obj] is undefined: reading .email throws
            Throw(h1, "CannotReadProperty")
     ELSE LET primaryEmail == IF obj.t = "number" THEN arr[obj.n + 1].email
                              ELSE IF obj.t = "string" THEN obj.s
                              ELSE IF obj.t = "null" THEN Undefined
                              ELSE NonString
          IN IF primaryEmail = Undefined THEN Throw(h1, "NoEmailToSet")
             ELSE LET c == fromObject(h1, user)
                      h2 == NewObject(c.h, [c.h.accs[c.ret] EXCEPT
                                              !.emails = emails,
                                              !.primaryEmail = primaryEmail])
                  IN Return(h2, Len(h2.accs))

\* static setPassword leaving fromObject's copy of the password in place
\* when pwd is null
StaticSetPasswordKeepsCopy(h, user, pwd, salt, date) ==
  LET c == fromObject(h, user)
      h1 == IF pwd.t = "null" THEN c.h
            ELSE [c.h EXCEPT !.pws = Append(@, PasswordCreate(pwd.s, salt, date))]
      h2 == NewObject(h1, [h1.accs[c.ret] EXCEPT
                             !.password = IF pwd.t = "null" THEN @
                                          ELSE PwRef(Len(h1.pws))])
  IN Return(h2, Len(h2.accs))

\* static async setPassword(user, pwd); pwd.t = "null" stands for null
StaticSetPassword(h, user, pwd, salt, date) ==
  LET c == fromObject(h, user)
      h1 == IF pwd.t = "null" THEN c.h
            ELSE [c.h EXCEPT !.pws = Append(@, PasswordCreate(pwd.s, salt, date))]
      h2 == NewObject(h1, [h1.accs[c.ret] EXCEPT
                             !.password = IF pwd.t = "null" THEN PwNull
                                          ELSE PwRef(Len(h1.pws))])
  IN Return(h2, Len(h2.accs))

\* static forceStatus(user, status)
StaticForceStatus(h, user, status) ==
  IF status \notin statusKeys THEN Throw(h, "InvalidStatus")
  ELSE LET c == Clone(h, user)
       IN Return([c.h EXCEPT !.accs[c.ret].status = status], c.ret)

\* static deactivate(user)
StaticDeactivate(h, user) ==
  LET c == Clone(h, user) IN Return([c.h EXCEPT !.accs[c.ret].status = "locked"], c.ret)

\* static reactivate(user)
StaticReactivate(h, user) ==
  LET c == Clone(h, user) IN Return([c.h EXCEPT !.accs[c.ret].status = "active"], c.ret)

\* create giving every account the status activation
StaticCreateWithFixedStatus(email, password, status, salt, date) ==
  LET h1 == [NewHeap EXCEPT !.ems = << << >> >>]
      obj == [primaryEmail |-> email, password |-> PwNull, status |-> "activation",
              username |-> Undefined, activation |-> NoToken, reset |-> NoToken,
              emails |-> 1, class |-> "Object"]
      h2 == [h1 EXCEPT !.accs = << obj >>]
      h3 == IF password.t = "string" /\ password.s # ""
              THEN [h2 EXCEPT !.pws = << PasswordCreate(password.s, salt, date) >>,
                              !.accs[1].password = PwRef(1)]
              ELSE h2
  IN Return(h3, 1)

\* static async create(email, password)
StaticCreate(email, password, status, salt, date) ==
  LET h1 == [NewHeap EXCEPT !.ems = << << >> >>]
      obj == [primaryEmail |-> email, password |-> PwNull, status |-> status,
              username |-> Undefined, activation |-> NoToken, reset |-> NoToken,
              emails |-> 1, class |-> "Object"]
      h2 == [h1 EXCEPT !.accs = << obj >>]
      \* if (password) obj.password = await Password.create(password)
      h3 == IF password.t = "string" /\ password.s # ""
              THEN [h2 EXCEPT !.pws = << PasswordCreate(password.s, salt, date) >>,
                              !.accs[1].password = PwRef(1)]
              ELSE h2
  IN Return(h3, 1)

\* register leaving the status create gave the account
StaticRegisterKeepsDefaultStatus(email, password, status, salt, date, generated) ==
  LET c == StaticCreate(email, password, status, salt, date)
  IN StaticCreateActivation(c.h, c.ret, date, generated)

\* static async register(email, password)
\* (src/src/user-account.spec.ts, second copy of the class)
StaticRegister(email, password, status, salt, date, generated) ==
  LET c == StaticCreate(email, password, status, salt, date)
      a == StaticCreateActivation(c.h, c.ret, date, generated)
  IN StaticForceStatus(a.h, a.ret, "activation")

\* login turning down an account that has not been through its activation
StaticLoginRefusingPending(h, user, password) ==
  IF h.accs[user].status # "active" \/ h.accs[user].activation.present
    THEN [err |-> "NonActiveStatus", resolved |-> ""]
  ELSE IF h.accs[user].password.kind # "ref"
    THEN [err |-> "NullifiedPassword", resolved |-> ""]
  ELSE LET r == PasswordValidate(h.pws[h.accs[user].password.ref], password)
       IN IF r = "rejected" THEN [err |-> "HashRequired", resolved |-> ""]
          ELSE [err |-> "", resolved |-> r]

\* static async login(acc, password)
\* (src/src/user-account.spec.ts, second copy of the class)
StaticLogin(h, user, password) ==
  IF h.accs[user].status # "active" THEN [err |-> "NonActiveStatus", resolved |-> ""]
  ELSE IF h.accs[user].password.kind # "ref"
    THEN [err |-> "NullifiedPassword", resolved |-> ""]
  ELSE LET r == PasswordValidate(h.pws[h.accs[user].password.ref], password)
       IN IF r = "rejected" THEN [err |-> "HashRequired", resolved |-> ""]
          ELSE [err |-> "", resolved |-> r]

\* ------------------------------------------------------ instance methods
\* createActivation(): value is the token the method returns
CreateActivation(h, this, date, generated) ==
  LET h1 == [h EXCEPT !.accs[this].activation =
               ExpireableToken(h.accs[this].primaryEmail, date, generated)]
  IN [h |-> h1, ret |-> 0, err |-> "", value |-> h1.accs[this].activation]

\* activate(token)
Activate(h, this, token) ==
  IF ~h.accs[this].activation.present THEN Throw(h, "ActivationDoesNotExist")
  ELSE IF validateStrings(h.accs[this].activation, token) = FALSE
    THEN Throw(h, "ActivationTokensDoNotMatch")
  ELSE Return([h EXCEPT !.accs[this].activation = NoToken], 0)

\* addEmail(email, label)
AddEmail(h, this, email, label, date) ==
  IF email.t # "string" THEN Throw(h, "EmailNotString")
  ELSE Return([h EXCEPT !.ems[h.accs[this].emails] =
                 Append(@, SecondaryEmail(email.s, label, date))], 0)

\* removeEmail(email)
RemoveEmail(h, this, email) ==
  LET index == RemoveIndex(h.ems[h.accs[this].emails], email)
  IN IF index.t # "number" \/ index.n < 0 THEN Return(h, 0)
     ELSE Return([h EXCEPT !.ems[h.accs[this].emails] = splice(@, index.n)], 0)

\* createReset()
CreateReset(h, this, date, generated) ==
  Return([h EXCEPT !.accs[this].reset =
            ExpireableToken(h.accs[this].primaryEmail, date, generated)], 0)

\* applyReset(token)
ApplyReset(h, this, token) ==
  IF validateStrings(h.accs[this].reset, token) = FALSE
    THEN Throw(h, "ResetTokenDoesNotAlign")
  ELSE Return([h EXCEPT !.accs[this].reset = NoToken], 0)

\* setPrimaryEmail dropping the pending tokens, which were made for the
\* address that is no longer the primary one
SetPrimaryEmailDroppingTokens(h, this, obj) ==
  LET arr == h.ems[h.accs[this].emails]
      h1 == [h EXCEPT !.accs[this].activation = NoToken, !.accs[this].reset = NoToken]
  IN IF obj.t = "number"
       THEN IF obj.n >= 0 /\ obj.n < Len(arr)
              THEN Return([h1 EXCEPT !.accs[this].primaryEmail = arr[obj.n + 1].email], 0)
              ELSE Throw(h, "CannotReadProperty")
     ELSE IF obj.t # "string" THEN Throw(h, "InvalidTypeForPrimaryEmail")
     ELSE Return([h1 EXCEPT !.accs[this].primaryEmail = obj.s], 0)

\* setPrimaryEmail(obj)
SetPrimaryEmail(h, this, obj) ==
  LET arr == h.ems[h.accs[this].emails]
  IN IF obj.t = "number"
       THEN IF obj.n >= 0 /\ obj.n < Len(arr)
              THEN Return([h EXCEPT !.accs[this].primaryEmail = arr[obj.n + 1].email], 0)
              ELSE \* this.emails[obj] is undefined: reading .email throws
                   Throw(h, "CannotReadProperty")
     ELSE IF obj.t # "string" THEN Throw(h, "InvalidTypeForPrimaryEmail")
     ELSE Return([h EXCEPT !.accs[this].primaryEmail = obj.s], 0)

\* async setPassword(pwd); pwd.t = "null" stands for null
SetPassword(h, this, pwd, salt, date) ==
  IF pwd.t = "null" THEN Return([h EXCEPT !.accs[this].password = PwNull], 0)
  ELSE LET h1 == [h EXCEPT !.pws = Append(@, PasswordCreate(pwd.s, salt, date))]
       IN Return([h1 EXCEPT !.accs[this].password = PwRef(Len(h1.pws))], 0)

\* forceStatus(status)
ForceStatus(h, this, status) == Return([h EXCEPT !.accs[this].status = status], 0)

\* deactivate()
Deactivate(h, this) == Return([h EXCEPT !.accs[this].status = "locked"], 0)

\* reactivate()
Reactivate(h, this) == Return([h EXCEPT !.accs[this].status = "active"], 0)

\* ----------------------------------------------------------------- state

NoArg == [t |-> "none", s |-> "", n |-> 0]

NoAccount ==
  [primaryEmail |-> Undefined, username |-> Undefined,
   password |-> [kind |-> "undefined", hash |-> <<>>, salt |-> Undefined, created |-> 0],
   emails |-> << >>, status |-> "activation", activation |-> NoToken,
   reset |-> NoToken, class |-> "none"]

\* the heap a call starts from: the caller's account at reference 1
heap == ToHeap(account)

\* what a call did: its name, form and arguments, the error thrown, and for
\* a returned object whether it is the input object or shares the input's
\* emails array or password object; inputChanged tells whether the object
\* the call was made on differs, after the call, from what it was before;
\* replaced is the string of the pending token a createActivation or
\* createReset found in the place it assigns
Observed(op, form, arg, label, out) ==
  LET in == out.h.accs[1]
      r == IF out.ret = 0 THEN in ELSE out.h.accs[out.ret]
  IN [op |-> op, form |-> form, arg |-> arg, label |-> label, err |-> out.err,
      returned |-> out.ret # 0,
      sameObject |-> out.ret = 1,
      sharedEmails |-> out.ret # 0 /\ r.emails = in.emails,
      sharedPassword |-> out.ret # 0 /\ r.password.kind = "ref"
                           /\ r.password = in.password,
      inputChanged |-> Deep(out.h, 1) # account,
      resolved |-> "",
      replaced |-> IF op = "createActivation" /\ account.activation.present
                     THEN account.activation.token
                   ELSE IF op = "createReset" /\ account.reset.present
                     THEN account.reset.token
                   ELSE Undefined]

\* no setPassword is waiting for its hash; atCall is the account as it was
\* when the setPassword that waits, or waited last, was called
NoHashing == [pending |-> FALSE, raw |-> "", atCall |-> NoAccount]

Init ==
  /\ account = NoAccount
  /\ call = [op |-> "none", form |-> "none", arg |-> NoArg, label |-> Undefined,
             err |-> "", returned |-> FALSE, sameObject |-> FALSE,
             sharedEmails |-> FALSE, sharedPassword |-> FALSE,
             inputChanged |-> FALSE, resolved |-> "", replaced |-> Undefined]
  /\ now = 0
  /\ defaultStatus = "activation"
  /\ expirationLength = Num(1)
  /\ generator = DefaultGenerator
  /\ invoked = 0
  /\ hashing = NoHashing

\* a static call: the caller keeps the returned object, or the input if it threw
Static(op, arg, label, out) ==
  /\ account.class # "none"
  /\ account' = IF out.err = "" THEN Deep(out.h, out.ret) ELSE Deep(out.h, 1)
  /\ call' = Observed(op, "static", arg, label, out)
  /\ UNCHANGED <<now, defaultStatus, tokenSettings, hashing>>

\* a method call on the caller's UserAccount instance
Instance(op, arg, label, out) ==
  /\ account.class = "UserAccount"
  /\ account' = Deep(out.h, 1)
  /\ call' = Observed(op, "instance", arg, label, out)
  /\ UNCHANGED <<now, defaultStatus, tokenSettings, hashing>>

\* the record of a call that is made on no account
SettingCall(op, arg, err) ==
  [op |-> op, form |-> "static", arg |-> arg, label |-> Undefined, err |-> err,
   returned |-> FALSE, sameObject |-> FALSE, sharedEmails |-> FALSE,
   sharedPassword |-> FALSE, inputChanged |-> FALSE, resolved |-> "",
   replaced |-> Undefined]

\* the setter storing whatever it is given
SetDefaultStatusUnchecked(obj) ==
  /\ defaultStatus' = obj
  /\ call' = SettingCall("DefaultStatus", Str(obj), "")
  /\ UNCHANGED <<account, now, tokenSettings, hashing>>

\* static set DefaultStatus(obj): throws on a status outside statusKeys
SetDefaultStatus(obj) ==
  /\ defaultStatus' = IF obj \in statusKeys THEN obj ELSE defaultStatus
  /\ call' = [op |-> "DefaultStatus", form |-> "static", arg |-> Str(obj),
              label |-> Undefined,
              err |-> IF obj \in statusKeys THEN "" ELSE "InvalidStatus",
              returned |-> FALSE, sameObject |-> FALSE, sharedEmails |-> FALSE,
              sharedPassword |-> FALSE, inputChanged |-> FALSE, resolved |-> "",
              replaced |-> Undefined]
  /\ UNCHANGED <<account, now, tokenSettings, hashing>>

\* time passes
Tick ==
  /\ now < MaxTime
  /\ now' = now + 1
  /\ UNCHANGED <<account, call, defaultStatus, tokenSettings, hashing>>

\* ExpireableToken.ExpirationLength = num
SetExpirationLength(num) ==
  /\ LET out == ExpirationLengthSetter(expirationLength, num)
     IN /\ expirationLength' = out.length
        /\ call' = SettingCall("ExpirationLength", num, out.err)
  /\ UNCHANGED <<account, now, defaultStatus, generator, invoked, hashing>>

\* ExpireableToken.Generator = fn; the setter calls fn() if fn can be called
SetGenerator(fn) ==
  /\ \E tst \in (IF fn.callable THEN fn.result ELSE {Null}) :
       LET out == GeneratorSetter(generator, fn, tst)
       IN /\ generator' = out.generator
          /\ invoked' = out.invoked
          /\ call' = SettingCall("Generator", Str(fn.name), out.err)
  /\ UNCHANGED <<account, now, defaultStatus, expirationLength, hashing>>

\* a new account: the caller had none
Create(email, password, salt) ==
  /\ account.class = "none"
  /\ LET out == StaticCreate(email, password, defaultStatus, salt, now)
     IN /\ account' = Deep(out.h, out.ret)
        /\ call' = [Observed("create", "static", Str(email), Undefined, out)
                      EXCEPT !.inputChanged = FALSE, !.sameObject = FALSE,
                             !.sharedEmails = FALSE, !.sharedPassword = FALSE]
  /\ UNCHANGED <<now, defaultStatus, tokenSettings, hashing>>

Register(email, password, salt, generated) ==
  /\ account.class = "none"
  /\ LET out == StaticRegister(email, password, defaultStatus, salt, now, generated)
     IN /\ account' = Deep(out.h, out.ret)
        /\ call' = [Observed("register", "static", Str(email), Undefined, out)
                      EXCEPT !.inputChanged = FALSE, !.sameObject = FALSE,
                             !.sharedEmails = FALSE, !.sharedPassword = FALSE]
  /\ UNCHANGED <<now, defaultStatus, tokenSettings, hashing>>

FromObject ==
  /\ account.class # "none"
  /\ LET out == fromObject(heap, 1)
     IN /\ account' = Deep(out.h, out.ret)
        /\ call' = Observed("fromObject", "static", NoArg, Undefined, out)
  /\ UNCHANGED <<now, defaultStatus, tokenSettings, hashing>>

Login(password) ==
  /\ account.class # "none"
  /\ LET r == StaticLogin(heap, 1, password)
     IN call' = [Observed("login", "static", Str(password), Undefined, Return(heap, 0))
                   EXCEPT !.err = r.err, !.resolved = r.resolved]
  /\ UNCHANGED <<account, now, defaultStatus, tokenSettings, hashing>>

CallStaticCreateActivation(generated) ==
  Static("createActivation", NoArg, Undefined,
         StaticCreateActivation(heap, 1, now, generated))

CallStaticActivate(token) ==
  Static("activate", Str(token), Undefined, StaticActivate(heap, 1, token))

CallStaticAddEmail(email, label) ==
  /\ Len(account.emails) < MaxEmails
  /\ Static("addEmail", email, label, StaticAddEmail(heap, 1, email, label, now))

CallStaticRemoveEmail(email) ==
  Static("removeEmail", email, Undefined, StaticRemoveEmail(heap, 1, email))

CallStaticCreateReset(generated) ==
  Static("createReset", NoArg, Undefined, StaticCreateReset(heap, 1, now, generated))

CallStaticApplyReset(token) ==
  Static("applyReset", Str(token), Undefined, StaticApplyReset(heap, 1, token))

CallStaticSetPrimaryEmail(obj) ==
  Static("setPrimaryEmail", obj, Undefined, StaticSetPrimaryEmail(heap, 1, obj))

CallStaticSetPassword(pwd, salt) ==
  Static("setPassword", pwd, Undefined, StaticSetPassword(heap, 1, pwd, salt, now))

CallStaticForceStatus(status) ==
  Static("forceStatus", Str(status), Undefined, StaticForceStatus(heap, 1, status))

CallStaticDeactivate ==
  Static("deactivate", NoArg, Undefined, StaticDeactivate(heap, 1))

CallStaticReactivate ==
  Static("reactivate", NoArg, Undefined, StaticReactivate(heap, 1))

CallCreateActivation(generated) ==
  Instance("createActivation", NoArg, Undefined,
           CreateActivation(heap, 1, now, generated))

CallActivate(token) ==
  Instance("activate", Str(token), Undefined, Activate(heap, 1, token))

CallAddEmail(email, label) ==
  /\ Len(account.emails) < MaxEmails
  /\ Instance("addEmail", email, label, AddEmail(heap, 1, email, label, now))

CallRemoveEmail(email) ==
  Instance("removeEmail", email, Undefined, RemoveEmail(heap, 1, email))

CallCreateReset(generated) ==
  Instance("createReset", NoArg, Undefined, CreateReset(heap, 1, now, generated))

CallApplyReset(token) ==
  Instance("applyReset", Str(token), Undefined, ApplyReset(heap, 1, token))

CallSetPrimaryEmail(obj) ==
  Instance("setPrimaryEmail", obj, Undefined, SetPrimaryEmail(heap, 1, obj))

CallSetPassword(pwd, salt) ==
  Instance("setPassword", pwd, Undefined, SetPassword(heap, 1, pwd, salt, now))

\* async setPassword(pwd) with a string: the call runs up to
\* await Password.create(pwd) and hands control back
BeginSetPassword(pwd) ==
  /\ account.class = "UserAccount"
  /\ ~hashing.pending
  /\ pwd.t = "string"
  /\ hashing' = [pending |-> TRUE, raw |-> pwd.s, atCall |-> account]
  /\ call' = Observed("setPassword", "instance", pwd, Undefined, Return(heap, 0))
  /\ UNCHANGED <<account, now, defaultStatus, tokenSettings>>

\* the hash arrives and the whole account as it was at the call is put back
\* with the new password
CompleteSetPasswordOnSnapshot(salt) ==
  /\ hashing.pending
  /\ LET out == SetPassword(ToHeap(hashing.atCall), 1, Str(hashing.raw), salt, now)
     IN /\ account' = Deep(out.h, 1)
        /\ call' = Observed("setPassword", "instance", Str(hashing.raw), Undefined, out)
  /\ hashing' = [hashing EXCEPT !.pending = FALSE]
  /\ UNCHANGED <<now, defaultStatus, tokenSettings>>

\* Password.create resolves: this.password is assigned the new Password
CompleteSetPassword(salt) ==
  /\ hashing.pending
  /\ LET out == SetPassword(heap, 1, Str(hashing.raw), salt, now)
     IN /\ account' = Deep(out.h, 1)
        /\ call' = Observed("setPassword", "instance", Str(hashing.raw), Undefined, out)
  /\ hashing' = [hashing EXCEPT !.pending = FALSE]
  /\ UNCHANGED <<now, defaultStatus, tokenSettings>>

\* Password.create rejects: the await throws and nothing is assigned
FailSetPassword ==
  /\ hashing.pending
  /\ call' = Observed("setPassword", "instance", Str(hashing.raw), Undefined,
                      Throw(heap, "HashingFailed"))
  /\ hashing' = [hashing EXCEPT !.pending = FALSE]
  /\ UNCHANGED <<account, now, defaultStatus, tokenSettings>>

CallForceStatus(status) ==
  Instance("forceStatus", Str(status), Undefined, ForceStatus(heap, 1, status))

CallDeactivate == Instance("deactivate", NoArg, Undefined, Deactivate(heap, 1))

CallReactivate == Instance("reactivate", NoArg, Undefined, Reactivate(heap, 1))

\* ------------------------------------------------- inputs of the calls
\* the email a new account is created with
CreateEmails == {"a@x"}
\* the secondary emails that are added
AddedEmails == {Str("b@x"), Num(0)}
EmailArgs == {Str(e) : e \in EmailAddrs}
IndexArgs == {Num(n) : n \in (0 - 1)..MaxEmails}
PasswordArgs == {Str(p) : p \in RawPasswords} \cup {Null}
StatusArgs == statusKeys \cup {BogusStatus}
\* what setPrimaryEmail is called with: an address, an index, null, an object
PrimaryEmailArgs == EmailArgs \cup IndexArgs \cup {Null, Obj}

Next ==
  \/ \E email \in CreateEmails, password \in PasswordArgs, salt \in Salts :
       Create(email, password, salt)
  \/ \E email \in CreateEmails, password \in PasswordArgs, salt \in Salts,
        generated \in Generated :
       Register(email, password, salt, generated)
  \/ FromObject
  \/ \E password \in LoginAttempts : Login(password)
  \/ \E generated \in Generated : CallStaticCreateActivation(generated)
  \/ \E token \in TokenStrings : CallStaticActivate(token)
  \/ \E email \in AddedEmails, label \in Labels : CallStaticAddEmail(email, label)
  \/ \E email \in EmailArgs \cup IndexArgs : CallStaticRemoveEmail(email)
  \/ \E generated \in Generated : CallStaticCreateReset(generated)
  \/ \E token \in TokenStrings : CallStaticApplyReset(token)
  \/ \E obj \in PrimaryEmailArgs : CallStaticSetPrimaryEmail(obj)
  \/ \E pwd \in PasswordArgs, salt \in Salts : CallStaticSetPassword(pwd, salt)
  \/ \E status \in StatusArgs : CallStaticForceStatus(status)
  \/ CallStaticDeactivate
  \/ CallStaticReactivate
  \/ \E generated \in Generated : CallCreateActivation(generated)
  \/ \E token \in TokenStrings : CallActivate(token)
  \/ \E email \in AddedEmails, label \in Labels : CallAddEmail(email, label)
  \/ \E email \in EmailArgs \cup IndexArgs : CallRemoveEmail(email)
  \/ \E generated \in Generated : CallCreateReset(generated)
  \/ \E token \in TokenStrings : CallApplyReset(token)
  \/ \E obj \in PrimaryEmailArgs : CallSetPrimaryEmail(obj)
  \/ \E pwd \in PasswordArgs, salt \in Salts : CallSetPassword(pwd, salt)
  \/ \E status \in StatusArgs : CallForceStatus(status)
  \/ CallDeactivate
  \/ CallReactivate

Spec == Init /\ [][Next]_vars

\* the creation of accounts under a DefaultStatus the application configures,
\* and their activation through the static functions
NextCreation ==
  \/ \E status \in StatusArgs : SetDefaultStatus(status)
  \/ \E email \in EmailAddrs, password \in PasswordArgs, salt \in Salts :
       Create(email, password, salt)
  \/ \E email \in EmailAddrs, password \in PasswordArgs, salt \in Salts,
        generated \in TokenStrings :
       Register(email, password, salt, generated)
  \/ \E password \in LoginAttempts : Login(password)
  \/ \E generated \in TokenStrings : CallStaticCreateActivation(generated)
  \/ \E token \in TokenStrings : CallStaticActivate(token)

SpecCreation == Init /\ [][NextCreation]_vars

\* the emails list alone: accounts are created, turned into instances, and
\* given and relieved of secondary emails, with and without a label, the
\* same address more than once
ListLabels == {"work", Undefined}
ListIndexArgs == {Num(n) : n \in (0 - 1)..MaxList}

ListStaticAddEmail(email, label) ==
  /\ Len(account.emails) < MaxList
  /\ Static("addEmail", email, label, StaticAddEmail(heap, 1, email, label, now))

ListAddEmail(email, label) ==
  /\ Len(account.emails) < MaxList
  /\ Instance("addEmail", email, label, AddEmail(heap, 1, email, label, now))

NextEmails ==
  \/ \E email \in CreateEmails, password \in PasswordArgs, salt \in Salts :
       Create(email, password, salt)
  \/ FromObject
  \/ \E email \in EmailArgs \cup {Num(0)}, label \in ListLabels :
       ListStaticAddEmail(email, label)
  \/ \E email \in EmailArgs \cup {Num(0)}, label \in ListLabels :
       ListAddEmail(email, label)
  \/ \E email \in EmailArgs \cup ListIndexArgs : CallStaticRemoveEmail(email)
  \/ \E email \in EmailArgs \cup ListIndexArgs : CallRemoveEmail(email)
  \/ \E obj \in EmailArgs \cup ListIndexArgs : CallStaticSetPrimaryEmail(obj)
  \/ \E obj \in EmailArgs \cup ListIndexArgs : CallSetPrimaryEmail(obj)

SpecEmails == Init /\ [][NextEmails]_vars

\* tokens under the settings of ExpireableToken while time passes: what the
\* generator in force may return, the lengths and the generators that are
\* assigned
GeneratorResults(gen) == {v.s : v \in {r \in gen.result : r.t = "string"}}
LengthArgs == {Null, Num(0 - 1), Num(0), Num(1), Num(2), Str("1"), Obj}
GeneratorArgs == {DefaultGenerator, StringGenerator, NumberGenerator, NotAFunction}

NextTokens ==
  \/ Tick
  \/ \E num \in LengthArgs : SetExpirationLength(num)
  \/ \E fn \in GeneratorArgs : SetGenerator(fn)
  \/ \E email \in CreateEmails, salt \in Salts : Create(email, Null, salt)
  \/ FromObject
  \/ \E generated \in GeneratorResults(generator) :
       CallStaticCreateActivation(generated)
  \/ \E generated \in GeneratorResults(generator) : CallCreateActivation(generated)
  \/ \E generated \in GeneratorResults(generator) : CallStaticCreateReset(generated)
  \/ \E generated \in GeneratorResults(generator) : CallCreateReset(generated)
  \/ \E token \in TokenStrings : CallStaticActivate(token)
  \/ \E token \in TokenStrings : CallActivate(token)
  \/ \E token \in TokenStrings : CallStaticApplyReset(token)
  \/ \E token \in TokenStrings : CallApplyReset(token)

SpecTokens == Init /\ [][NextTokens]_vars

\* logins of accounts whose tokens are pending while time passes
NextLogin ==
  \/ Tick
  \/ \E email \in CreateEmails, password \in PasswordArgs, salt \in Salts :
       Create(email, password, salt)
  \/ \E generated \in Generated : CallStaticCreateActivation(generated)
  \/ \E generated \in Generated : CallStaticCreateReset(generated)
  \/ \E status \in StatusArgs : CallStaticForceStatus(status)
  \/ \E password \in LoginAttempts : Login(password)

SpecLogin == Init /\ [][NextLogin]_vars

\* instance calls made while a setPassword awaits its hash; the caller keeps
\* the instance the setPassword was called on
NextHashing ==
  \/ \E email \in CreateEmails, password \in PasswordArgs, salt \in Salts :
       Create(email, password, salt)
  \/ ~hashing.pending /\ FromObject
  \/ \E raw \in LoginAttempts : BeginSetPassword(Str(raw))
  \/ \E salt \in Salts : CompleteSetPassword(salt)
  \/ FailSetPassword
  \/ \E obj \in EmailArgs : CallSetPrimaryEmail(obj)
  \/ \E status \in {"active", "locked"} : CallForceStatus(status)
  \/ CallAddEmail(Str("b@x"), Undefined)

SpecHashing == Init /\ [][NextHashing]_vars

\* ---------------------------------------------------------------- claims
\* the transitions that exist in a static (pure) and an instance form
Transitions ==
  {"createActivation", "activate", "addEmail", "removeEmail", "createReset",
   "applyReset", "setPrimaryEmail", "setPassword", "forceStatus", "deactivate",
   "reactivate"}

\* C1: a static transition never changes the account it is given: after the
\* call, whether it returned or threw, every field of the input (and the
\* contents of its emails array and password object) is what it was before.
C1_StaticLeavesInput ==
  (call.form = "static" /\ call.op \in Transitions) => ~call.inputChanged

\* a static addEmail has returned an account with one more email
C1_Witness ==
  /\ call.form = "static" /\ call.op = "addEmail" /\ call.err = ""
  /\ Len(account.emails) = 1

\* the calls C2 lists as failing, on the account a they are made on
C2_Invalid(a, op, arg) ==
  \/ op = "activate" /\ ~(a.activation.present /\ a.activation.token = arg.s)
  \/ op = "applyReset" /\ ~(a.reset.present /\ a.reset.token = arg.s)
  \/ op = "addEmail" /\ arg.t # "string"
  \/ op = "setPrimaryEmail" /\ arg.t = "number"
       /\ ~(arg.n >= 0 /\ arg.n < Len(a.emails))
  \/ op = "setPrimaryEmail" /\ arg.t \notin {"string", "number"}
  \/ op = "forceStatus" /\ arg.s \notin statusKeys

\* C2: an instance call with the invalid arguments the claim lists throws and
\* leaves every field of the instance as it was before the call.
C2_FailedInstanceCallLeavesAccount ==
  [][(call'.form = "instance" /\ C2_Invalid(account, call'.op, call'.arg))
       => (call'.err # "" /\ account' = account)]_vars

\* C3: activate, in either form, fails with the does-not-exist error when no
\* activation token is pending, else fails with the do-not-match error when
\* the string differs from the pending token's, else succeeds and the
\* resulting account has no activation token; a failure leaves the account.
C3_ActivateOutcomes ==
  [][call'.op = "activate" =>
       IF ~account.activation.present
         THEN call'.err = "ActivationDoesNotExist" /\ account' = account
       ELSE IF account.activation.token # call'.arg.s
         THEN call'.err = "ActivationTokensDoNotMatch" /\ account' = account
       ELSE call'.err = "" /\ ~account'.activation.present]_vars

\* activate has succeeded with the pending token and removed it
C3_Witness ==
  /\ call.op = "activate" /\ call.err = "" /\ call.arg.s \in Generated
  /\ ~account.activation.present

\* C4: applyReset, in either form, fails with the reset-does-not-exist error
\* when no reset token is pending, fails with the does-not-align error for a
\* string other than the pending token's, and succeeds and removes reset for
\* the string of the token createReset made.
C4_ApplyResetOutcomes ==
  [][call'.op = "applyReset" =>
       IF ~account.reset.present
         THEN call'.err = "ResetDoesNotExist"
       ELSE IF account.reset.token # call'.arg.s
         THEN call'.err = "ResetTokenDoesNotAlign"
       ELSE call'.err = "" /\ ~account'.reset.present]_vars

\* the calls that put a token on the account
C5_Creates(field) ==
  IF field = "activation" THEN {"createActivation", "register", "create"}
  ELSE {"createReset", "register", "create"}

\* C5: tokens are single-use: an activate (applyReset) made right after a
\* successful activate (applyReset) fails with the does-not-exist error,
\* whatever string it is given, and a token that is absent stays absent
\* until createActivation (createReset) is called.
C5_SingleUse ==
  [][/\ (call.op = "activate" /\ call.err = "" /\ call'.op = "activate")
          => call'.err = "ActivationDoesNotExist"
     /\ (call.op = "applyReset" /\ call.err = "" /\ call'.op = "applyReset")
          => call'.err = "ResetDoesNotExist"
     /\ (~account.activation.present /\ account.class # "none"
           /\ call'.op \notin C5_Creates("activation"))
          => ~account'.activation.present
     /\ (~account.reset.present /\ account.class # "none"
           /\ call'.op \notin C5_Creates("reset"))
          => ~account'.reset.present]_vars

\* C6: login rejects with the status error whenever status is not active;
\* with status active and no credential it rejects with the credential
\* error; otherwise it resolves to whether the raw password is the one the
\* credential was hashed from.
C6_LoginOutcomes ==
  call.op = "login" =>
    IF account.status # "active" THEN call.err = "NonActiveStatus"
    ELSE IF account.password.hash = << >> THEN call.err = "NullifiedPassword"
    ELSE /\ call.err = ""
         /\ call.resolved = IF account.password.hash[1] = call.arg.s
                              THEN "true" ELSE "false"

\* C7: the status of every account reached from create or register is one of
\* active, locked, activation, and forceStatus with another value throws the
\* invalid-status error and leaves the status, in both forms.
C7_StatusIsLegal ==
  /\ account.class # "none" => account.status \in statusKeys
  /\ (call.op = "forceStatus" /\ call.arg.s \notin statusKeys)
       => call.err = "InvalidStatus"

\* the fields of an account value, its class left out
Fields(a) == [a EXCEPT !.class = "Object"]

\* the static and the instance outcome agree: same error, or the same fields
C8_Agree(s, i) ==
  /\ s.err = i.err
  /\ s.err = "" => Fields(Deep(s.h, s.ret)) = Fields(Deep(i.h, 1))

\* C8: on every instance and for every argument, the instance form of a
\* transition throws exactly when the static form throws on the same
\* account, with the same error, and otherwise leaves the instance with the
\* fields of the account the static form returns.
C8_FormsAgree ==
  account.class = "UserAccount" =>
    /\ \A g \in Generated :
         /\ C8_Agree(StaticCreateActivation(heap, 1, now, g),
                     CreateActivation(heap, 1, now, g))
         /\ C8_Agree(StaticCreateReset(heap, 1, now, g), CreateReset(heap, 1, now, g))
    /\ \A t \in TokenStrings :
         /\ C8_Agree(StaticActivate(heap, 1, t), Activate(heap, 1, t))
         /\ C8_Agree(StaticApplyReset(heap, 1, t), ApplyReset(heap, 1, t))
    /\ \A e \in EmailArgs \cup {Num(0), Obj}, l \in Labels :
         C8_Agree(StaticAddEmail(heap, 1, e, l, now), AddEmail(heap, 1, e, l, now))
    /\ \A e \in EmailArgs \cup IndexArgs \cup {Obj} :
         C8_Agree(StaticRemoveEmail(heap, 1, e), RemoveEmail(heap, 1, e))
    /\ \A o \in EmailArgs \cup IndexArgs \cup {Null, Obj} :
         C8_Agree(StaticSetPrimaryEmail(heap, 1, o), SetPrimaryEmail(heap, 1, o))
    /\ \A p \in PasswordArgs, s \in Salts :
         C8_Agree(StaticSetPassword(heap, 1, p, s, now), SetPassword(heap, 1, p, s, now))
    /\ \A st \in StatusArgs :
         C8_Agree(StaticForceStatus(heap, 1, st), ForceStatus(heap, 1, st))
    /\ C8_Agree(StaticDeactivate(heap, 1), Deactivate(heap, 1))
    /\ C8_Agree(StaticReactivate(heap, 1), Reactivate(heap, 1))

\* C9: the account a static transition returns is another object than its
\* input, with another emails array and another password object.
C9_ReturnsFreshContainers ==
  (call.form = "static" /\ call.op \in Transitions /\ call.returned)
    => ~call.sameObject /\ ~call.sharedEmails /\ ~call.sharedPassword

\* the fields a transition is meant to change
C10_Modifies(op) ==
  CASE op \in {"createActivation", "activate"} -> {"activation"}
    [] op \in {"addEmail", "removeEmail"} -> {"emails"}
    [] op \in {"createReset", "applyReset"} -> {"reset"}
    [] op = "setPrimaryEmail" -> {"primaryEmail"}
    [] op = "setPassword" -> {"password"}
    [] op \in {"forceStatus", "deactivate", "reactivate"} -> {"status"}

C10_AllFields ==
  {"primaryEmail", "username", "password", "emails", "status", "activation", "reset"}

\* C10: in the account a static transition returns, every field the
\* transition is not meant to change has the content it has in the input
\* (an absent credential or token stays absent).
C10_UntouchedFieldsKeepContent ==
  [][(call'.form = "static" /\ call'.op \in Transitions /\ call'.err = "")
       => \A f \in C10_AllFields \ C10_Modifies(call'.op) : account'[f] = account[f]]_vars

\* C11: from every account create returns, createActivation followed by
\* activate with the token string of the activation it made succeeds and
\* yields an account without activation whose every other field has the
\* content it has in the created account.
C11_RoundTrip ==
  call.op = "create" =>
    \A g \in TokenStrings :
      LET a == StaticCreateActivation(heap, 1, now, g)
          r == StaticActivate(a.h, a.ret, a.h.accs[a.ret].activation.token)
      IN /\ a.err = "" /\ r.err = ""
         /\ ~Deep(r.h, r.ret).activation.present
         /\ \A f \in C10_AllFields \ {"activation"} :
              Deep(r.h, r.ret)[f] = account[f]

\* C12: the account register returns has status activation, whatever
\* DefaultStatus is configured to, and carries an activation token whose
\* email is the account's primaryEmail, the email register was given.
C12_RegisterYieldsActivation ==
  call.op = "register" =>
    /\ account.status = "activation"
    /\ account.activation.present
    /\ account.primaryEmail = call.arg.s
    /\ account.activation.email = account.primaryEmail

\* register has returned while DefaultStatus was configured to active
C12_Witness ==
  /\ call.op = "register" /\ defaultStatus = "active"
  /\ account.activation.present /\ account.status = "activation"

\* C13: create(email, password) yields an account with primaryEmail = email,
\* the status DefaultStatus has at the call, no secondary emails, no
\* activation and no reset token, and as credential the hash of password if
\* one is given, none otherwise.
C13_CreateInitialises ==
  [][\A email \in EmailAddrs, password \in PasswordArgs, salt \in Salts :
       Create(email, password, salt) =>
         /\ account'.primaryEmail = email
         /\ account'.status = defaultStatus
         /\ account'.emails = << >>
         /\ ~account'.activation.present /\ ~account'.reset.present
         /\ IF password.t = "string"
              THEN /\ account'.password.kind = "object"
                   /\ PasswordValidate(account'.password, password.s) = "true"
              ELSE account'.password.kind \in {"null", "undefined"}]_vars

\* create has returned an account with a credential while DefaultStatus was
\* configured to locked
C13_Witness ==
  /\ call.op = "create" /\ defaultStatus = "locked" /\ account.status = "locked"
  /\ account.password.kind = "object" /\ account.emails = << >>

\* C14: setPrimaryEmail with an index inside 0..emails.length-1 sets
\* primaryEmail to the address of the entry at that index; with any other
\* index it throws the out-of-bounds error and leaves the account as it
\* was, in the static and in the instance form.
C14_SetPrimaryEmailByIndex ==
  [][(call'.op = "setPrimaryEmail" /\ call'.arg.t = "number") =>
       IF call'.arg.n >= 0 /\ call'.arg.n < Len(account.emails)
         THEN /\ call'.err = ""
              /\ account'.primaryEmail = account.emails[call'.arg.n + 1].email
         ELSE call'.err = "IndexOutOfBounds" /\ account' = account]_vars

\* the errors setPrimaryEmail reports for an argument without an email in it
C15_TypeErrors == {"InvalidTypeForPrimaryEmail", "NoEmailToSet"}

\* C15: setPrimaryEmail with an argument that is neither a string nor a
\* number throws a type error and leaves the account as it was, in the
\* static and in the instance form; with a string it sets primaryEmail to
\* that string.
C15_SetPrimaryEmailByType ==
  [][call'.op = "setPrimaryEmail" =>
       /\ call'.arg.t \notin {"string", "number"} =>
            call'.err \in C15_TypeErrors /\ account' = account
       /\ call'.arg.t = "string" =>
            call'.err = "" /\ account'.primaryEmail = call'.arg.s]_vars

\* the positions (from 1) of the entries of arr whose address is addr
C16_Matches(arr, addr) == {i \in 1..Len(arr) : arr[i].email = addr}

\* the position (from 1) of the entry removeEmail is asked to remove: the
\* first with the address for a string, the index for a number; 0 if none
C16_Target(arr, arg) ==
  IF arg.t = "string"
    THEN IF C16_Matches(arr, arg.s) = {} THEN 0
         ELSE CHOOSE i \in C16_Matches(arr, arg.s) :
                \A j \in C16_Matches(arr, arg.s) : i <= j
  ELSE IF arg.t = "number" /\ arg.n >= 0 /\ arg.n < Len(arr) THEN arg.n + 1
  ELSE 0

\* C16: removeEmail with a string that is the address of no entry, or with
\* an index outside the list (negative included), throws nothing and yields
\* an account with the same emails in the same order and every other field
\* content-equal to the input's.
C16_RemoveAbsentChangesNothing ==
  [][(call'.op = "removeEmail" /\ C16_Target(account.emails, call'.arg) = 0) =>
       /\ call'.err = ""
       /\ account'.emails = account.emails
       /\ \A f \in C10_AllFields : account'[f] = account[f]]_vars

\* arr without its entry at position k (from 1)
C17_Without(arr, k) == SubSeq(arr, 1, k - 1) \o SubSeq(arr, k + 1, Len(arr))

\* C17: removeEmail with a string that is the address of some entry removes
\* the first such entry, and with an index inside the list the entry at that
\* index; the other entries stay, in their order, and the list is one
\* shorter.
C17_RemovesTheEntry ==
  [][(call'.op = "removeEmail" /\ C16_Target(account.emails, call'.arg) # 0) =>
       /\ call'.err = ""
       /\ account'.emails =
            C17_Without(account.emails, C16_Target(account.emails, call'.arg))
       /\ Len(account'.emails) = Len(account.emails) - 1]_vars

\* removeEmail(address) has removed the first of two entries with that
\* address and kept the second, which differs from it in its label
C17_Witness ==
  /\ call.op = "removeEmail" /\ call.arg.t = "string" /\ call.err = ""
  /\ Len(account.emails) = 2
  /\ account.emails[2].email = call.arg.s
  /\ account.emails[2].label = "work"
  /\ account.emails[1].email # call.arg.s

\* C18 as stated: after removeEmail with a string, in either form, no entry
\* of the resulting emails list has that string as its address.
C18_NoEntryLeft ==
  (call.op = "removeEmail" /\ call.arg.t = "string") =>
    C16_Matches(account.emails, call.arg.s) = {}

\* C18 as amended: removeEmail with a string, in either form, leaves one
\* entry fewer with that address than the list had, if it had any; none is
\* left exactly when the list had at most one.
C18_OneEntryFewer ==
  [][(call'.op = "removeEmail" /\ call'.arg.t = "string") =>
       LET before == Cardinality(C16_Matches(account.emails, call'.arg.s))
           after == Cardinality(C16_Matches(account'.emails, call'.arg.s))
       IN /\ after = IF before = 0 THEN 0 ELSE before - 1
          /\ (after = 0) <=> (before <= 1)]_vars

\* removeEmail(address) has returned a list that still holds an entry with
\* that address
C18_Witness ==
  /\ call.op = "removeEmail" /\ call.arg.t = "string" /\ call.err = ""
  /\ C16_Matches(account.emails, call.arg.s) # {}

\* C19: addEmail with a string appends one entry with that address and
\* label at the end of emails, keeps the entries there were in their order
\* and changes no other field; with a non-string it throws the type error
\* and the emails list is what it was.
C19_AddEmailAppends ==
  [][call'.op = "addEmail" =>
       IF call'.arg.t = "string"
         THEN /\ call'.err = ""
              /\ Len(account'.emails) = Len(account.emails) + 1
              /\ SubSeq(account'.emails, 1, Len(account.emails)) = account.emails
              /\ account'.emails[Len(account'.emails)].email = call'.arg.s
              /\ account'.emails[Len(account'.emails)].label = call'.label
              /\ \A f \in C10_AllFields \ {"emails"} : account'[f] = account[f]
         ELSE call'.err = "EmailNotString" /\ account'.emails = account.emails]_vars

\* C20: setPassword, in either form, succeeds and changes no field other
\* than the credential; after setPassword(null) the account has no
\* credential and a login that follows on the active account rejects with
\* the nullified-password error; after setPassword(raw) the credential is a
\* hash of raw made at the call, and a login with raw that follows on the
\* active account resolves true.
C20_SetPasswordThenLogin ==
  [][/\ call'.op = "setPassword" =>
          /\ call'.err = ""
          /\ \A f \in C10_AllFields \ {"password"} : account'[f] = account[f]
          /\ IF call'.arg.t = "null"
               THEN account'.password.kind \in {"null", "undefined"}
               ELSE /\ account'.password.kind = "object"
                    /\ account'.password.created = now
                    /\ PasswordValidate(account'.password, call'.arg.s) = "true"
     /\ (call.op = "setPassword" /\ call'.op = "login" /\ account.status = "active") =>
          IF call.arg.t = "null" THEN call'.err = "NullifiedPassword"
          ELSE call'.arg = call.arg => (call'.err = "" /\ call'.resolved = "true")]_vars

\* setPassword(null) has left an active account without a credential
C20_Witness ==
  /\ call.op = "setPassword" /\ call.arg.t = "null" /\ call.err = ""
  /\ account.status = "active" /\ account.password.kind = "null"
  /\ account.activation.present = FALSE

\* the step is a call of op, not the passing of time (which leaves call)
Called(op) == call'.op = op /\ now' = now

\* C21: createActivation, in either form and whatever the account holds,
\* leaves the account with an activation token whose email is the
\* primaryEmail the account had at the call, whose token is a string the
\* generator in force returns and whose creation time is not later than the
\* current time; the instance form returns the token it has stored.
C21_CreateActivationBindsToken ==
  [][Called("createActivation") =>
       /\ call'.err = ""
       /\ account'.activation.present
       /\ account'.activation.email = account.primaryEmail
       /\ account'.activation.token \in GeneratorResults(generator)
       /\ account'.activation.created <= now'
       /\ call'.form = "instance" =>
            CreateActivation(heap, 1, now, account'.activation.token).value
              = account'.activation]_vars

\* createActivation has replaced, on an instance, an older activation token
\* by one made later by the assigned generator
C21_Witness ==
  /\ call.op = "createActivation" /\ call.form = "instance"
  /\ account.activation.present /\ account.activation.created > 0
  /\ account.activation.token = "t2" /\ generator = StringGenerator

\* the status deactivate and reactivate set
C22_Status(op) == IF op = "deactivate" THEN "locked" ELSE "active"

\* C22: deactivate and reactivate, in either form and from any status, never
\* throw, leave the account with status locked and active, change no other
\* field, and leave what forceStatus with that status leaves.
C22_DeactivateReactivate ==
  [][call'.op \in {"deactivate", "reactivate"} =>
       /\ call'.err = ""
       /\ account'.status = C22_Status(call'.op)
       /\ \A f \in C10_AllFields \ {"status"} : account'[f] = account[f]
       /\ LET forced == IF call'.form = "static"
                          THEN StaticForceStatus(heap, 1, C22_Status(call'.op))
                          ELSE ForceStatus(heap, 1, C22_Status(call'.op))
          IN /\ forced.err = ""
             /\ Fields(account') =
                  Fields(Deep(forced.h, IF forced.ret = 0 THEN 1 ELSE forced.ret))]_vars

\* the tokens the expiry claims look at: the ones on the account, and one
\* created at each time of the clock, later than now included
ExpiryTokens ==
  {t \in {account.activation, account.reset} : t.present}
    \cup {ExpireableToken("a@x", c, "t1") : c \in 0..MaxTime}

\* C23: while ExpirationLength is a positive number L of hours, hasExpired of
\* a token is true exactly when the current time has reached the token's
\* creation time plus L hours (true at that instant, false before it), and
\* expiryDate of the token is that time.
C23_ExpiresAtLength ==
  expirationLength.t = "number" =>
    \A t \in ExpiryTokens :
      /\ hasExpired(t, expirationLength, now)
           <=> now >= t.created + expirationLength.n * TicksPerHour
      /\ expiryDate(t, expirationLength)
           = Num(t.created + expirationLength.n * TicksPerHour)

\* the clock stands at the very instant the account's activation token,
\* created after the start, expires, and hasExpired reports it expired
C23_Witness ==
  /\ account.activation.present /\ account.activation.created > 0
  /\ expirationLength = Num(1)
  /\ now = account.activation.created + TicksPerHour
  /\ hasExpired(account.activation, expirationLength, now)
  /\ ~hasExpired(account.activation, expirationLength, now - 1)

\* C24: whatever positive ExpirationLength is in force, hasExpired is false
\* of a token at the time it was created; and once ExpirationLength has been
\* assigned null, 0 or a negative number, hasExpired is false of every token
\* now and at every later time.
C24_NotExpiredAtCreationNorUnlimited ==
  /\ expirationLength.t = "number" =>
       \A t \in ExpiryTokens : ~hasExpired(t, expirationLength, t.created)
  /\ (/\ call.op = "ExpirationLength" /\ call.err = ""
      /\ call.arg.t = "null" \/ (call.arg.t = "number" /\ call.arg.n <= 0)) =>
       \A t \in ExpiryTokens, later \in now..(MaxTime + 2 * TicksPerHour) :
         ~hasExpired(t, expirationLength, later)

\* ExpirationLength was assigned 0 and the account's activation token is
\* two hours old
C24_Witness ==
  /\ call.op = "ExpirationLength" /\ call.arg = Num(0) /\ call.err = ""
  /\ account.activation.present
  /\ now >= account.activation.created + 2 * TicksPerHour
  /\ ~hasExpired(account.activation, expirationLength, now)

\* C25: whenever the account holds a pending activation (reset) token,
\* expired or not, activate (applyReset) with that token's string succeeds
\* in the static and in the instance form and removes the token.
C25_ExpiredTokensStillValidate ==
  /\ account.activation.present =>
       LET s == StaticActivate(heap, 1, account.activation.token)
           i == Activate(heap, 1, account.activation.token)
       IN /\ s.err = "" /\ ~Deep(s.h, s.ret).activation.present
          /\ i.err = "" /\ ~Deep(i.h, 1).activation.present
  /\ account.reset.present =>
       LET s == StaticApplyReset(heap, 1, account.reset.token)
           i == ApplyReset(heap, 1, account.reset.token)
       IN /\ s.err = "" /\ ~Deep(s.h, s.ret).reset.present
          /\ i.err = "" /\ ~Deep(i.h, 1).reset.present

\* the account holds an activation and a reset token that hasExpired reports
\* expired
C25_Witness ==
  /\ account.activation.present /\ account.reset.present
  /\ hasExpired(account.activation, expirationLength, now)
  /\ hasExpired(account.reset, expirationLength, now)

C27_ExpirationLengthSetter ==
  [][Called("ExpirationLength") =>
       IF call'.arg.t \notin {"number", "null"}
         THEN call'.err # "" /\ expirationLength' = expirationLength
       ELSE IF call'.arg.t = "null" \/ call'.arg.n <= 0
         THEN call'.err = "" /\ expirationLength' = Null
       ELSE call'.err = "" /\ expirationLength' = Num(call'.arg.n)]_vars

\* an assignment of a string has thrown and the length of two hours
\* assigned before it is still in force
C27_Witness ==
  /\ call.op = "ExpirationLength" /\ call.arg.t = "string" /\ call.err # ""
  /\ expirationLength = Num(2)


\* C28: assigning Generator calls the candidate once if it can be called; if
\* it cannot be called or what it returns is no string, the assignment throws
\* and the generator in force stays; otherwise the candidate is the generator
\* in force, and every token created takes its string from the generator in
\* force when it is created.
C28_GeneratorSetter ==
  [][/\ Called("Generator") =>
          \A fn \in GeneratorArgs :
            call'.arg = Str(fn.name) =>
              /\ fn.callable => invoked' = 1
              /\ IF ~fn.callable \/ GeneratorResults(fn) = {}
                   THEN call'.err # "" /\ generator' = generator
                 ELSE call'.err = "" /\ generator' = fn
     /\ (Called("createActivation") /\ call'.err = "") =>
          account'.activation.token \in GeneratorResults(generator)
     /\ (Called("createReset") /\ call'.err = "") =>
          account'.reset.token \in GeneratorResults(generator)]_vars

\* the candidate returning a number was called once and turned down, and the
\* generator assigned before it is still in force
C28_Witness ==
  /\ call.op = "Generator" /\ call.arg = Str(NumberGenerator.name)
  /\ call.err # "" /\ invoked = 1
  /\ generator = StringGenerator


\* C29: DefaultStatus is 'activation' at first and changes only when it is
\* assigned; assigning a value outside statusKeys throws an invalid-status
\* error and leaves the default in force; assigning one of the three statuses
\* stores it; no assignment touches an account that exists; and create gives
\* the account the default in force when it is called.
C29_DefaultStatus ==
  /\ defaultStatus = "activation"
  /\ [][/\ call'.op = "DefaultStatus" =>
             /\ account' = account
             /\ IF call'.arg.s \in statusKeys
                  THEN call'.err = "" /\ defaultStatus' = call'.arg.s
                ELSE call'.err = "InvalidStatus" /\ defaultStatus' = defaultStatus
        /\ call'.op # "DefaultStatus" => defaultStatus' = defaultStatus
        /\ (call'.op = "create" /\ call'.err = "") =>
             account'.status = defaultStatus]_vars

\* an account created while the default was 'locked' is still locked after
\* the default has been set to 'active'
C29_Witness ==
  /\ call.op = "DefaultStatus" /\ call.err = "" /\ defaultStatus = "active"
  /\ account.class # "none" /\ account.status = "locked"


\* C30: a setPrimaryEmail that succeeds, given a string or an index of an
\* entry and in either form, leaves emails as it was: the same entries in the
\* same order, the new primary address not among them unless it already was.
C30_SetPrimaryEmailKeepsEmails ==
  [][(/\ call'.op = "setPrimaryEmail" /\ call'.err = ""
      /\ call'.arg.t \in {"string", "number"}) =>
       account'.emails = account.emails]_vars

\* the second of two entries was made primary by its index and both entries
\* are where they were
C30_Witness ==
  /\ call.op = "setPrimaryEmail" /\ call.err = "" /\ call.arg = Num(1)
  /\ Len(account.emails) = 2
  /\ account.primaryEmail = account.emails[2].email
  /\ account.emails[1].email # account.primaryEmail


\* an account without a credential: password is null or was never set
C31_NoCredential(acc) == acc.password.kind \in {"null", "undefined"}

\* C31: a static transition other than setPassword with a password string,
\* applied to an account without a credential, gives an account without a
\* credential, and login of an active account without a credential rejects
\* with the error of a nullified password.
C31_CredentialAbsencePreserved ==
  [][/\ (/\ call'.form = "static" /\ call'.op \in Transitions
         /\ ~(call'.op = "setPassword" /\ call'.arg.t = "string")
         /\ C31_NoCredential(account))
          => C31_NoCredential(account')
     /\ (call'.op = "login" /\ account.status = "active" /\ C31_NoCredential(account))
          => call'.err = "NullifiedPassword"]_vars


\* what C32 says of the status: activate keeps it, register leaves it
\* activation, login of an account whose status is activation rejects with
\* the error of a non-active status, and only reactivate and
\* forceStatus('active') make an account active
C32_StatusStep ==
  /\ (call'.op = "activate" /\ call'.err = "") => account'.status = account.status
  /\ (call'.op = "register" /\ call'.err = "") => account'.status = "activation"
  /\ (call'.op = "login" /\ account.status = "activation") =>
       call'.err = "NonActiveStatus"
  /\ (account.class # "none" /\ account.status # "active"
      /\ account'.status = "active") =>
       \/ call'.op = "reactivate"
       \/ call'.op = "forceStatus" /\ call'.arg = Str("active")

\* C32: a successful activate, in either form, changes no field other than
\* activation, so the status after it is the status before it: after register
\* and activate the status is still activation, and login rejects with the
\* error of a non-active status until reactivate or forceStatus('active').
C32_ActivateKeepsStatus ==
  [][/\ (call'.op = "activate" /\ call'.err = "") =>
          \A f \in C10_AllFields \ {"activation"} : account'[f] = account[f]
     /\ C32_StatusStep]_vars


\* C33: an account holds one activation and one reset token at most, and
\* createActivation (createReset) on an account that has one puts the new
\* token in its place: after it, in either form, activate (applyReset) takes
\* the string of the new token and turns every other string down with the
\* error of tokens that do not match, the string of the replaced token among
\* them if the generator gave another one.
C33_LatestTokenOnly ==
  [][/\ (Called("createActivation") /\ call'.err = "" /\ account.activation.present) =>
          /\ account'.activation.present
          /\ account'.activation.created = now
          /\ account'.activation.token \in GeneratorResults(generator)
          /\ \A token \in TokenStrings :
               LET expected == IF token = account'.activation.token THEN ""
                               ELSE "ActivationTokensDoNotMatch"
               IN /\ StaticActivate(heap', 1, token).err = expected
                  /\ Activate(heap', 1, token).err = expected
     /\ (Called("createReset") /\ call'.err = "" /\ account.reset.present) =>
          /\ account'.reset.present
          /\ account'.reset.created = now
          /\ account'.reset.token \in GeneratorResults(generator)
          /\ \A token \in TokenStrings :
               LET expected == IF token = account'.reset.token THEN ""
                               ELSE "ResetTokenDoesNotAlign"
               IN /\ StaticApplyReset(heap', 1, token).err = expected
                  /\ ApplyReset(heap', 1, token).err = expected]_vars

\* createActivation has put the token 't2' in the place of a pending 't1'
C33_Witness ==
  /\ call.op = "createActivation" /\ call.err = ""
  /\ call.replaced = "t1" /\ account.activation.token = "t2"


\* C34: setPrimaryEmail, in either form, leaves the pending activation and
\* reset tokens as they were, the address they were made for included, and
\* after it activate and applyReset still take the strings of these tokens.
C34_SetPrimaryEmailKeepsTokens ==
  [][call'.op = "setPrimaryEmail" =>
       /\ account'.activation = account.activation
       /\ account'.reset = account.reset
       /\ account.activation.present =>
            /\ StaticActivate(heap', 1, account.activation.token).err = ""
            /\ Activate(heap', 1, account.activation.token).err = ""
       /\ account.reset.present =>
            /\ StaticApplyReset(heap', 1, account.reset.token).err = ""
            /\ ApplyReset(heap', 1, account.reset.token).err = ""]_vars

\* the primary address was changed while an activation and a reset were
\* pending, and both tokens carry the address that was primary before
C34_Witness ==
  /\ call.op = "setPrimaryEmail" /\ call.err = ""
  /\ account.activation.present /\ account.reset.present
  /\ account.primaryEmail = "b@x"
  /\ account.activation.email = "a@x" /\ account.reset.email = "a@x"


\* the four operations of the activation flow and the reset flow
C35_Flows == {"createActivation", "activate", "createReset", "applyReset"}

\* what C35 says of the fields other than the credential: createActivation and
\* activate leave reset, createReset and applyReset leave activation, and all
\* four leave status, primaryEmail and the contents of emails
C35_OtherFieldsStep ==
  /\ call'.op \in {"createActivation", "activate"} => account'.reset = account.reset
  /\ call'.op \in {"createReset", "applyReset"} =>
       account'.activation = account.activation
  /\ call'.op \in C35_Flows =>
       /\ account'.status = account.status
       /\ account'.primaryEmail = account.primaryEmail
       /\ account'.emails = account.emails

\* C35: createActivation and activate never change reset, createReset and
\* applyReset never change activation, and none of the four, whether it
\* succeeds or throws and in either form, changes the credential, the status,
\* primaryEmail or the contents of emails.
C35_FlowsIndependent ==
  [][/\ C35_OtherFieldsStep
     /\ call'.op \in C35_Flows => account'.password = account.password]_vars


\* the tokens an account may hold in the place of the ones it has: none, or
\* one made for either address just now or one ExpirationLength ago
C36_Tokens ==
  {NoToken} \cup
    {ExpireableToken(email, created, token) :
       email \in EmailAddrs, token \in TokenStrings,
       created \in {now, now - (IF expirationLength.t = "number"
                                  THEN expirationLength.n * TicksPerHour ELSE 0)}}

\* C36: the outcome of login is the same for two accounts that differ only
\* in their activation and reset tokens, whether these are absent, pending or
\* expired, for every raw password; the outcome a login had is the one the
\* account's status, credential and the raw password give.
C36_LoginIgnoresTokens ==
  /\ account.class # "none" =>
       \A activation \in C36_Tokens, reset \in C36_Tokens, password \in LoginAttempts :
         StaticLogin(ToHeap([account EXCEPT !.activation = activation,
                                            !.reset = reset]), 1, password)
           = StaticLogin(heap, 1, password)
  /\ call.op = "login" =>
       LET r == StaticLogin(ToHeap([account EXCEPT !.activation = NoToken,
                                                   !.reset = NoToken]), 1, call.arg.s)
       IN call.err = r.err /\ call.resolved = r.resolved

\* an active account has logged in while its activation token, expired by
\* now, and a reset token were pending
C36_Witness ==
  /\ call.op = "login" /\ call.err = "" /\ call.resolved = "true"
  /\ account.status = "active"
  /\ account.activation.present /\ account.reset.present
  /\ hasExpired(account.activation, expirationLength, now)


\* the tokens the account holds
C37_Issued == {t \in {account.activation, account.reset} : t.present}

\* C37: once ExpirationLength has been assigned, hasExpired and expiryDate of
\* every token issued before the assignment follow the new length: under a
\* positive length L the token expires at its creation time plus L hours,
\* under the unlimited length expiryDate is null and hasExpired is false,
\* whatever hasExpired was before the assignment.
C37_ExpiryFollowsLengthInForce ==
  [][(Called("ExpirationLength") /\ call'.err = "") =>
       \A t \in C37_Issued :
         IF expirationLength'.t = "null"
           THEN /\ expiryDate(t, expirationLength') = Null
                /\ ~hasExpired(t, expirationLength', now')
         ELSE /\ expiryDate(t, expirationLength')
                   = Num(t.created + expirationLength'.n * TicksPerHour)
              /\ hasExpired(t, expirationLength', now')
                   <=> now' >= t.created + expirationLength'.n * TicksPerHour]_vars

\* two hours were assigned while the activation token had passed the hour it
\* would have lived under a length of one, and the token has not expired
C37_Witness ==
  /\ call.op = "ExpirationLength" /\ call.arg = Num(2) /\ call.err = ""
  /\ expirationLength = Num(2)
  /\ account.activation.present
  /\ hasExpired(account.activation, Num(1), now)
  /\ ~hasExpired(account.activation, expirationLength, now)


\* C38: an instance setPassword with a string changes nothing when it is
\* called; while it awaits the hash the credential is the one the instance
\* had at the call; if the hashing fails no field changes; and when the hash
\* arrives only the credential is assigned, so what instance operations did
\* to the other fields in the meantime is still in place.
C38_SetPasswordAssignsOnCompletion ==
  [][/\ (~hashing.pending /\ hashing'.pending) => account' = account
     /\ hashing'.pending => account'.password = hashing'.atCall.password
     /\ (hashing.pending /\ ~hashing'.pending /\ call'.err # "") =>
          account' = account
     /\ (hashing.pending /\ ~hashing'.pending /\ call'.err = "") =>
          /\ \A f \in C10_AllFields \ {"password"} : account'[f] = account[f]
          /\ account'.password.kind = "object"
          /\ PasswordValidate(account'.password, hashing.raw) = "true"]_vars

\* the hash has arrived and the credential is the new one, while the primary
\* address, the status and the emails changed since the call are in place
C38_Witness ==
  /\ ~hashing.pending /\ call.op = "setPassword" /\ call.err = ""
  /\ hashing.atCall.class = "UserAccount"
  /\ account.password # hashing.atCall.password
  /\ account.primaryEmail # hashing.atCall.primaryEmail
  /\ account.status # hashing.atCall.status
  /\ account.emails # hashing.atCall.emails

====
